---------------------------- MODULE Spec2Model ----------------------------
(***************************************************************************)
(* The fixture scheduler of the badminton tournament server                *)
(* (src/server/index.js, generateFixtures and createPairs), as a state     *)
(* machine: one invocation of generateFixtures, stepped one loop iteration *)
(* at a time; and the tournament routes that call it, with the in-memory   *)
(* tournament and the matches table.                                       *)
(*                                                                         *)
(* Player ids are the strings "P<n>"; a player is written n here.  Where   *)
(* the code turns ids into text (Array.prototype.sort() without            *)
(* comparator, the combination key) the model works on the ids' decimal    *)
(* text, as sequences of character codes.                                  *)
(***************************************************************************)
EXTENDS Integers, Sequences, FiniteSets

VARIABLES
    pc,                     \* where the invocation stands
    team1, team2,           \* teams.team1, teams.team2 (the arguments)
    matchesPerPlayer,       \* the argument matchesPerPlayer
    fixtures,               \* const fixtures = []
    team1Pairs, team2Pairs, \* createPairs(team1), createPairs(team2)
    playerMatchCount,       \* Map playerId -> count
    usedCombinations,       \* Set of combination keys
    totalMatches,           \* let totalMatches
    shuffledFixtures,       \* the Phase-1 candidate pool
    playersWithFewMatches,  \* Phase 2: the snapshot, players still to visit
    minMatches, maxMatches, \* Phase 3
    balancingAttempts,      \* Phase 3
    randomValues,           \* what the invocation drew from Math.random so far
    selectedPlayers,        \* the server: the players of the tournament
    aiAnswer,               \* the server: how the AI call of the team split ended
    returned,               \* the server: the invocations that returned, in order
    currentTournament,      \* let currentTournament (the in-memory cache)
    matches,                \* the rows of the matches table, by id
    uuids,                  \* the number of uuids that earlier invocations drew
    scoreRequests,          \* the score requests waiting at their await
    response,               \* the last response sent
    handler,                \* the handler that is running generateFixtures
    requestCount,           \* the number of requests received
    request                 \* the request received last

vars == <<pc, team1, team2, matchesPerPlayer, fixtures, team1Pairs, team2Pairs,
          playerMatchCount, usedCombinations, totalMatches, shuffledFixtures,
          playersWithFewMatches, minMatches, maxMatches, balancingAttempts,
          randomValues, selectedPlayers, aiAnswer, returned, currentTournament,
          matches, uuids, scoreRequests, response, handler, requestCount, request>>

\* the cache, the database and the requests
server == <<currentTournament, matches, uuids, scoreRequests, response, handler,
            requestCount, request>>

\* the state of the caller, which no step of an invocation touches
outside == <<selectedPlayers, aiAnswer, returned, server>>

----------------------------------------------------------------------------
(* Bounds of the model *)

\* teams of 0 .. MaxTeamSize players each
MaxTeamSize == 4
\* targets -1 .. MaxTarget (and the default target)
MaxTarget == 3
\* candidate pools of up to this many fixtures are shuffled in every order
MaxExhaustivePool == 6
\* larger pools are shuffled in NumSeeds orders
NumSeeds == 16
\* the termination check runs the inputs with pools of up to this many fixtures
MaxFairPool == 18

\* the repeated-call check: up to MaxCalls invocations, one after the other,
\* for teams with pools of 1 .. MaxRepeatPool fixtures, targets
\* 0 .. MaxRepeatTarget, and the shuffles of NumRepeatSeeds seeds
MaxCalls == 2
MaxRepeatPool == 6
MaxRepeatTarget == 2
NumRepeatSeeds == 3

\* the server check: tournaments of 0 .. MaxSelected players; the AI answers
\* with the ways of cutting the player list in two and with every two lists of
\* up to MaxListLen names, of the first MaxNamed players or of nobody
MaxSelected == 6
MaxListLen == 2
MaxNamed == 2

\* function generateFixtures(teams, matchesPerPlayer = 6)
DefaultMatchesPerPlayer == 6
\* if (!playerIds || playerIds.length < 4) return res.status(400)
MinPlayers == 4
\* const maxBalancingAttempts = 100
maxBalancingAttempts == 100
\* Math.min() of no values is Infinity, Math.max() of no values -Infinity
Infinity == 1000000

----------------------------------------------------------------------------
(* Helpers for sequences and numbers *)

Min(a, b) == IF a <= b THEN a ELSE b
Max(a, b) == IF a >= b THEN a ELSE b

Range(s) == {s[i] : i \in 1..Len(s)}

\* Array.prototype.includes
Includes(s, x) == \E i \in 1..Len(s) : s[i] = x

\* Body(v), with v worked out once
With(v, Body(_)) == CHOOSE r \in {Body(x) : x \in {v}} : TRUE

\* the sequences of ss, one after the other
Concat(ss) ==
    With(SubSeq(ss, 1, Len(ss)), LAMBDA seqs :
        LET fromTo[r \in (1..(Len(seqs) + 1)) \X (0..Len(seqs))] ==
                IF r[1] > r[2] THEN <<>>
                ELSE IF r[1] = r[2] THEN seqs[r[1]]
                ELSE fromTo[<<r[1], (r[1] + r[2]) \div 2>>]
                         \o fromTo[<<(r[1] + r[2]) \div 2 + 1, r[2]>>]
        IN  fromTo[<<1, Len(seqs)>>])

\* Array.prototype.sort(compare) with a consistent comparator: a stable sort.
\* Less(a, b) stands for compare(a, b) < 0.  An element's place is behind the
\* smaller elements and behind the equal elements that stood before it.
StableSort(s, Less(_, _)) ==
    With(SubSeq(s, 1, Len(s)), LAMBDA e :
        With(SubSeq([i \in 1..Len(e) |->
                        Cardinality({j \in 1..Len(e) :
                            \/ Less(e[j], e[i])
                            \/ (j < i /\ ~Less(e[i], e[j]))}) + 1], 1, Len(e)),
             LAMBDA pos :
                 SubSeq([k \in 1..Len(e) |-> e[CHOOSE i \in 1..Len(e) : pos[i] = k]],
                        1, Len(e))))

\* Math.min(...values), Math.max(...values)
MathMin(S) == IF S = {} THEN Infinity ELSE CHOOSE x \in S : \A y \in S : x <= y
MathMax(S) == IF S = {} THEN -Infinity ELSE CHOOSE x \in S : \A y \in S : x >= y

----------------------------------------------------------------------------
(* Ids as text *)

\* the decimal text of n, as character codes ("0" is 48)
IdStr(n) ==
    LET digits[m \in 0..n] ==
            IF m < 10 THEN <<48 + m>> ELSE Append(digits[m \div 10], 48 + (m % 10))
    IN  digits[n]

\* s < t as strings (code unit order, a proper prefix is smaller)
StrLess(s, t) ==
    \E k \in 1..Len(t) :
        /\ \A j \in 1..(k - 1) : j <= Len(s) /\ s[j] = t[j]
        /\ (k > Len(s) \/ s[k] < t[k])

\* pair.sort(): the default sort orders the elements by their text
SortPair(pair) ==
    IF StrLess(IdStr(pair[2]), IdStr(pair[1])) THEN <<pair[2], pair[1]>> ELSE pair

\* pair.join(',')  ("," is 44)
JoinPair(pair) == IdStr(pair[1]) \o <<44>> \o IdStr(pair[2])

\* variant: the key of the pairs as they stand, unsorted
CombinationKeyUnsorted(p1, p2) == JoinPair(p1) \o <<45>> \o JoinPair(p2)

\* `${p1.sort().join(',')}-${p2.sort().join(',')}`  ("-" is 45)
CombinationKey(p1, p2) == JoinPair(SortPair(p1)) \o <<45>> \o JoinPair(SortPair(p2))

----------------------------------------------------------------------------
(* Phase 0: createPairs and the derived constants *)

\* variant: the inner loop starting at i instead of i + 1
createPairsWithSelf(team) ==
    Concat([i \in 1..Len(team) |->
              [k \in 1..(Len(team) - i + 1) |-> <<team[i], team[i + k - 1]>>]])

createPairs(team) ==
    Concat([i \in 1..Len(team) |->
              [k \in 1..(Len(team) - i) |-> <<team[i], team[i + k]>>]])

\* Math.min(matchesPerPlayer, Math.floor((team1.length + team2.length) * 2))
targetMatchesPerPlayer == Min(matchesPerPlayer, (Len(team1) + Len(team2)) * 2)

\* variant: a cap with a slack of two
maxMatchesPerPlayerWide == targetMatchesPerPlayer + 2

\* variant: a cap without the slack of one
maxMatchesPerPlayerNoSlack == targetMatchesPerPlayer

maxMatchesPerPlayer == targetMatchesPerPlayer + 1

\* maxTotalMatches is min(|pairs1| * |pairs2|, target * n / 2), maybe not an
\* integer: totalMatches < maxTotalMatches is compared on the doubled values
BelowMaxTotalMatches(n) ==
    /\ n < Len(team1Pairs) * Len(team2Pairs)
    /\ 2 * n < targetMatchesPerPlayer * (Len(team1) + Len(team2))

\* the Map's keys in insertion order: [...team1, ...team2], a key once
Dedupe(s) ==
    LET n == Len(s)
        upTo[i \in 0..n] ==
            IF i = 0 THEN <<>>
            ELSE IF \E j \in 1..(i - 1) : s[j] = s[i] THEN upTo[i - 1]
            ELSE Append(upTo[i - 1], s[i])
    IN  upTo[n]

MapKeys == Dedupe(team1 \o team2)

\* a committed fixture; uuidv4() is a value that no fixture before has: the
\* uuids are numbered as they are drawn
NewFixture(p1, p2) ==
    [id |-> uuids + Len(fixtures) + 1, team1 |-> p1, team2 |-> p2, status |-> "pending",
     team1Score |-> "null", team2Score |-> "null", winner |-> "null"]

\* variant: the first pair counted only
BumpFirstPair(count, ids) ==
    [p \in DOMAIN count |-> count[p] + Cardinality({i \in 1..2 : ids[i] = p})]

\* [...p1, ...p2].forEach(id => count.set(id, count.get(id) + 1))
Bump(count, ids) ==
    [p \in DOMAIN count |-> count[p] + Cardinality({i \in 1..Len(ids) : ids[i] = p})]

----------------------------------------------------------------------------
(* The inputs *)

\* teams of a and b players: ids ascending, team 1 first
TeamsAsc(a, b) == [team1 |-> [i \in 1..a |-> i], team2 |-> [i \in 1..b |-> a + i]]
\* ids descending, team 2 holding the smaller ids
TeamsDesc(a, b) ==
    [team1 |-> [i \in 1..a |-> a + b + 1 - i], team2 |-> [i \in 1..b |-> b + 1 - i]]

Targets == ((-1)..MaxTarget) \cup {DefaultMatchesPerPlayer}

\* GET /api/test-fixtures: player1..player5 against player6..player10, target 6
testTeams == TeamsAsc(5, 5)

Inputs ==
    {[teams |-> t, matchesPerPlayer |-> m] :
        t \in {TeamsAsc(a, b) : a, b \in 0..MaxTeamSize}
              \cup {TeamsDesc(a, b) : a, b \in 0..MaxTeamSize},
        m \in Targets}
    \cup {[teams |-> testTeams, matchesPerPlayer |-> DefaultMatchesPerPlayer]}

\* [...all].sort(() => Math.random() - 0.5): some order of the n elements.
\* Small pools take every order; larger ones the orders of NumSeeds seeds
\* (the elements ordered by a hash of seed and index).
ShuffleKey(seed, i) == (seed * i * i + (seed + 7) * i) % 101

SeededOrder(n, seed) ==
    StableSort([i \in 1..n |-> i],
               LAMBDA x, y : ShuffleKey(seed, x) < ShuffleKey(seed, y))

\* every order of 1..n: k goes into any place of an order of 1..k-1
Orders(n) ==
    LET orders[k \in 0..n] ==
            IF k = 0 THEN {<<>>}
            ELSE {SubSeq(o, 1, i) \o <<k>> \o SubSeq(o, i + 1, k - 1) :
                     o \in orders[k - 1], i \in 0..(k - 1)}
    IN  orders[n]

SeededOrders(n) == {SeededOrder(n, seed) : seed \in 1..NumSeeds}

ShuffleOrders(n) == IF n <= MaxExhaustivePool THEN Orders(n) ELSE SeededOrders(n)

----------------------------------------------------------------------------
(* The invocation *)

\* let currentTournament = null: the cache before a tournament is created
NoTournament ==
    [status |-> "null", id |-> 0, teams |-> [team1 |-> <<>>, team2 |-> <<>>],
     fixtures |-> <<>>, matchesPerPlayer |-> 0]

\* no response yet
NoResponse == [to |-> "none", status |-> 0]

\* the server after its start: no tournament, no matches, no request
ServerStarted ==
    /\ currentTournament = NoTournament
    /\ matches = <<>>
    /\ uuids = 0
    /\ scoreRequests = {}
    /\ response = NoResponse
    /\ handler = "none"
    /\ requestCount = 0
    /\ request = [to |-> "none"]

\* the state when generateFixtures is called with one of the given inputs
InitFrom(inputs) ==
    /\ ServerStarted
    /\ pc = "start"
    /\ \E in \in inputs :
          /\ team1 = in.teams.team1
          /\ team2 = in.teams.team2
          /\ matchesPerPlayer = in.matchesPerPlayer
    /\ fixtures = <<>>
    /\ team1Pairs = <<>>
    /\ team2Pairs = <<>>
    /\ playerMatchCount = <<>>
    /\ usedCombinations = {}
    /\ totalMatches = 0
    /\ shuffledFixtures = <<>>
    /\ playersWithFewMatches = <<>>
    /\ minMatches = 0
    /\ maxMatches = 0
    /\ balancingAttempts = 0
    /\ randomValues = <<>>
    /\ selectedPlayers = <<>>
    /\ aiAnswer = [kind |-> "none"]
    /\ returned = <<>>

Init == InitFrom(Inputs)

\* the pair arrays after the cross-product loop: pair.sort() sorts a pair in
\* place each time the loop body reaches it
SortedIfVisited(pairs, visited) ==
    IF visited THEN [i \in 1..Len(pairs) |-> SortPair(pairs[i])] ELSE pairs

\* for (team1Pair of team1Pairs) for (team2Pair of team2Pairs) push({...})
allPossibleFixtures(pairs1, pairs2) ==
    Concat([i \in 1..Len(pairs1) |->
              [j \in 1..Len(pairs2) |->
                 [team1Pair |-> pairs1[i], team2Pair |-> pairs2[j],
                  combinationKey |-> CombinationKey(pairs1[i], pairs2[j])]]])

\* variant: the set of the invocation before is used on
keptUsedCombinations == usedCombinations

\* const usedCombinations = new Set()
newUsedCombinations == {}

\* lines 536-575: bookkeeping, pair lists, candidate pool, and the shuffle,
\* which leaves the pool in one of the orders ShuffledOrders(n)
SetupWith(ShuffledOrders(_)) ==
    /\ pc = "start"
    /\ \E p1 \in {createPairs(team1)}, p2 \in {createPairs(team2)} :
       \E s1 \in {SortedIfVisited(p1, p2 # <<>>)},
          s2 \in {SortedIfVisited(p2, p1 # <<>>)} :
       \E all \in {allPossibleFixtures(s1, s2)} :
          /\ team1Pairs' = s1
          /\ team2Pairs' = s2
          /\ \E order \in ShuffledOrders(Len(all)) :
                /\ shuffledFixtures' = [k \in 1..Len(all) |-> all[order[k]]]
                /\ randomValues' = <<order>>
    /\ playerMatchCount' = [p \in Range(team1) \cup Range(team2) |-> 0]
    /\ usedCombinations' = newUsedCombinations
    /\ totalMatches' = 0
    /\ fixtures' = <<>>
    /\ pc' = "phase1"
    /\ UNCHANGED <<outside, team1, team2, matchesPerPlayer, playersWithFewMatches,
                   minMatches, maxMatches, balancingAttempts>>

Setup == SetupWith(ShuffleOrders)

----------------------------------------------------------------------------
(* Phase 1: greedy fill *)

\* [...fixture.team1Pair, ...fixture.team2Pair]
PlayersOf(f) == f.team1Pair \o f.team2Pair

CountsOf(ids) == {playerMatchCount[ids[i]] : i \in 1..Len(ids)}

\* ids.reduce((sum, p) => sum + playerMatchCount.get(p), 0)
SumCounts(ids) ==
    LET n == Len(ids)
        sum[i \in 0..n] == IF i = 0 THEN 0 ELSE sum[i - 1] + playerMatchCount[ids[i]]
    IN  sum[n]

\* aMinCount and aTotalCount of lines 584-592, for one fixture of the pool
Priority(f) ==
    [fixture |-> f,
     minCount |-> MathMin(CountsOf(PlayersOf(f))),
     totalCount |-> SumCounts(PlayersOf(f))]

\* variant: the comparator's differences taken the other way round
PriorityLessReversed(a, b) ==
    IF a.minCount # b.minCount THEN b.minCount < a.minCount
    ELSE b.totalCount < a.totalCount

\* the comparator of lines 580-594: minimum count first, then the sum
PriorityLess(a, b) ==
    IF a.minCount # b.minCount THEN a.minCount < b.minCount
    ELSE a.totalCount < b.totalCount

\* shuffledFixtures.sort((a, b) => ...) of line 580
SortByPriority(pool) ==
    LET keyed == SubSeq([i \in 1..Len(pool) |-> Priority(pool[i])], 1, Len(pool))
        sorted == StableSort(keyed, PriorityLess)
    IN  SubSeq([i \in 1..Len(pool) |-> sorted[i].fixture], 1, Len(pool))

\* variant: the cap test with > for >=
wouldExceedMaxStrict(f) ==
    \E i \in 1..4 : playerMatchCount[PlayersOf(f)[i]] > maxMatchesPerPlayer

\* some(playerId => playerMatchCount.get(playerId) >= maxMatchesPerPlayer)
wouldExceedMax(f) ==
    \E i \in 1..4 : playerMatchCount[PlayersOf(f)[i]] >= maxMatchesPerPlayer

alreadyUsed(f) == f.combinationKey \in usedCombinations

\* the scan of lines 599-641 over the sorted pool: the index of the fixture it
\* commits, 0 if it commits none
FirstAddable(sorted) ==
    LET ok == {i \in 1..Len(sorted) :
                 ~wouldExceedMax(sorted[i]) /\ ~alreadyUsed(sorted[i])}
    IN  IF ok = {} THEN 0 ELSE MathMin(ok)

\* variant: the committed fixture stays in the pool
PoolKeepingCommitted(sorted, i) ==
    IF i = 0 THEN <<>> ELSE SubSeq(sorted, i, Len(sorted))

\* the pool after the scan: every fixture scanned before the committed one was
\* spliced out, and so was the committed one; with no commit all were
PoolAfterScan(sorted, i) ==
    IF i = 0 THEN <<>> ELSE SubSeq(sorted, i + 1, Len(sorted))

\* lines 652-654: the players below max(1, target - 1), in Map order
FewMatches(count) ==
    SelectSeq(MapKeys, LAMBDA p : count[p] < Max(1, targetMatchesPerPlayer - 1))

\* one iteration of the while loop of line 578
Phase1Iterate ==
    /\ pc = "phase1"
    /\ Len(shuffledFixtures) > 0
    /\ BelowMaxTotalMatches(totalMatches)
    /\ \E sorted \in {SortByPriority(shuffledFixtures)} :
       \E i \in {FirstAddable(sorted)} :
           /\ shuffledFixtures' = PoolAfterScan(sorted, i)
           /\ IF i # 0
              THEN /\ fixtures' = Append(fixtures,
                          NewFixture(sorted[i].team1Pair, sorted[i].team2Pair))
                   /\ playerMatchCount' = Bump(playerMatchCount, PlayersOf(sorted[i]))
                   /\ usedCombinations' = usedCombinations \cup {sorted[i].combinationKey}
                   /\ totalMatches' = totalMatches + 1
                   /\ pc' = "phase1"
                   /\ UNCHANGED playersWithFewMatches
              ELSE \* if (!fixtureAdded) break
                   /\ playersWithFewMatches' = FewMatches(playerMatchCount)
                   /\ pc' = "phase2"
                   /\ UNCHANGED <<fixtures, playerMatchCount, usedCombinations,
                                  totalMatches>>
    /\ UNCHANGED <<outside, randomValues,
                   team1, team2, matchesPerPlayer, team1Pairs, team2Pairs,
                   minMatches, maxMatches, balancingAttempts>>

\* the loop condition of line 578 fails
Phase1Exit ==
    /\ pc = "phase1"
    /\ ~(Len(shuffledFixtures) > 0 /\ BelowMaxTotalMatches(totalMatches))
    /\ playersWithFewMatches' = FewMatches(playerMatchCount)
    /\ pc' = "phase2"
    /\ UNCHANGED <<outside, randomValues,
                   team1, team2, matchesPerPlayer, fixtures, team1Pairs, team2Pairs,
                   playerMatchCount, usedCombinations, totalMatches,
                   shuffledFixtures, minMatches, maxMatches, balancingAttempts>>

----------------------------------------------------------------------------
(* Phase 2: minimum-participation backfill *)

\* pairs.find(pair => pair.includes(playerId)): the pair's index, 0 for undefined
FindPair(pairs, playerId) ==
    LET hits == {i \in 1..Len(pairs) : Includes(pairs[i], playerId)}
    IN  IF hits = {} THEN 0 ELSE MathMin(hits)

\* variant: the pairs are held against the target instead of the cap
AvailablePairsBelowTarget(pairs, playerId) ==
    SelectSeq(pairs, LAMBDA pair :
        /\ ~Includes(pair, playerId)
        /\ \A i \in 1..2 : playerMatchCount[pair[i]] < targetMatchesPerPlayer)

\* pairs.filter(pair => !pair.includes(playerId) &&
\*                      pair.every(p => playerMatchCount.get(p) < maxMatchesPerPlayer))
AvailablePairs(pairs, playerId) ==
    SelectSeq(pairs, LAMBDA pair :
        /\ ~Includes(pair, playerId)
        /\ \A i \in 1..2 : playerMatchCount[pair[i]] < maxMatchesPerPlayer)

\* variant: the fixture is added without looking at usedCombinations
BackfillUnchecked(p1, p2) ==
    /\ fixtures' = Append(fixtures, NewFixture(p1, p2))
    /\ usedCombinations' = usedCombinations \cup {CombinationKey(p1, p2)}
    /\ playerMatchCount' = Bump(playerMatchCount, p1 \o p2)

\* variant: whether the fixture is added hangs on a draw of its own, which is
\* not among the random values of the shuffle and the picks
BackfillOnACoin(p1, p2) ==
    \/ /\ CombinationKey(p1, p2) \notin usedCombinations
       /\ fixtures' = Append(fixtures, NewFixture(p1, p2))
       /\ usedCombinations' = usedCombinations \cup {CombinationKey(p1, p2)}
       /\ playerMatchCount' = Bump(playerMatchCount, p1 \o p2)
    \/ UNCHANGED <<fixtures, usedCombinations, playerMatchCount>>

\* lines 674-691 and 703-720: the fixture is added unless its key is used
Backfill(p1, p2) ==
    IF CombinationKey(p1, p2) \notin usedCombinations
    THEN /\ fixtures' = Append(fixtures, NewFixture(p1, p2))
         /\ usedCombinations' = usedCombinations \cup {CombinationKey(p1, p2)}
         /\ playerMatchCount' = Bump(playerMatchCount, p1 \o p2)
    ELSE UNCHANGED <<fixtures, usedCombinations, playerMatchCount>>

\* one iteration of the for loop of line 659
Phase2Visit ==
    /\ pc = "phase2"
    /\ playersWithFewMatches # <<>>
    /\ LET playerId == Head(playersWithFewMatches)
           i1 == FindPair(team1Pairs, playerId)
           i2 == FindPair(team2Pairs, playerId)
           available == IF i1 # 0 THEN AvailablePairs(team2Pairs, playerId)
                        ELSE IF i2 # 0 THEN AvailablePairs(team1Pairs, playerId)
                        ELSE <<>>
       IN  IF available = <<>>
           THEN UNCHANGED <<fixtures, usedCombinations, playerMatchCount,
                            randomValues>>
           ELSE \* available[Math.floor(Math.random() * available.length)]
                \E k \in 1..Len(available) :
                   /\ randomValues' = Append(randomValues, k)
                   /\ IF i1 # 0 THEN Backfill(team1Pairs[i1], available[k])
                                ELSE Backfill(available[k], team2Pairs[i2])
    /\ playersWithFewMatches' = Tail(playersWithFewMatches)
    /\ pc' = "phase2"
    /\ UNCHANGED <<outside, team1, team2, matchesPerPlayer, team1Pairs, team2Pairs,
                   totalMatches, shuffledFixtures, minMatches, maxMatches,
                   balancingAttempts>>

\* playerMatchCount.values()
CountValues(count) == {count[p] : p \in DOMAIN count}

\* the for loop is over; lines 727-734
Phase2Exit ==
    /\ pc = "phase2"
    /\ playersWithFewMatches = <<>>
    /\ minMatches' = MathMin(CountValues(playerMatchCount))
    /\ maxMatches' = MathMax(CountValues(playerMatchCount))
    /\ balancingAttempts' = 0
    /\ pc' = "phase3"
    /\ UNCHANGED <<outside, randomValues,
                   team1, team2, matchesPerPlayer, fixtures, team1Pairs, team2Pairs,
                   playerMatchCount, usedCombinations, totalMatches,
                   shuffledFixtures, playersWithFewMatches>>

----------------------------------------------------------------------------
(* Phase 3: balance repair *)

\* lines 741-743, in Map order
playersWithMinMatches ==
    SelectSeq(MapKeys, LAMBDA p : playerMatchCount[p] = minMatches)

CountLess(a, b) == playerMatchCount[a] < playerMatchCount[b]

\* variant: the partners with the most matches first
sortedPartnersDescending(playerId) ==
    LET playerTeam == IF Includes(team1, playerId) THEN team1 ELSE team2
    IN  StableSort(SelectSeq(playerTeam, LAMBDA q : q # playerId),
                   LAMBDA a, b : playerMatchCount[a] > playerMatchCount[b])

\* lines 757-766: the partners tried for playerId, in the order tried
sortedPartners(playerId) ==
    LET playerTeam == IF Includes(team1, playerId) THEN team1 ELSE team2
        sorted == StableSort(SelectSeq(playerTeam, LAMBDA q : q # playerId), CountLess)
    IN  SelectSeq(sorted, LAMBDA q : ~(playerMatchCount[q] > maxMatches))

\* variant: the opposing pairs in the order of the nested loops, unsorted
opposingPairOptionsUnsorted(playerId) ==
    createPairs(IF Includes(team1, playerId) THEN team2 ELSE team1)

\* lines 771-788: the opposing pairs tried, in the order tried
opposingPairOptions(playerId) ==
    LET opposingTeam == IF Includes(team1, playerId) THEN team2 ELSE team1
        options == SelectSeq(createPairs(opposingTeam), LAMBDA pair :
                       /\ playerMatchCount[pair[1]] <= maxMatches
                       /\ playerMatchCount[pair[2]] <= maxMatches)
    IN  StableSort(options, LAMBDA a, b :
            playerMatchCount[a[1]] + playerMatchCount[a[2]]
              < playerMatchCount[b[1]] + playerMatchCount[b[2]])

\* variant: the player's pair always on the team1 side
BalancingFixtureOneSided(playerId, partnerId, opposingPair) ==
    [playerId |-> playerId, team1 |-> <<playerId, partnerId>>, team2 |-> opposingPair,
     combinationKey |-> CombinationKey(<<playerId, partnerId>>, opposingPair)]

\* the fixture built at lines 795-804 for a player, a partner and an opposing pair
BalancingFixture(playerId, partnerId, opposingPair) ==
    LET pair == <<playerId, partnerId>>
    IN  IF Includes(team1, playerId)
        THEN [playerId |-> playerId, team1 |-> pair, team2 |-> opposingPair,
              combinationKey |-> CombinationKey(pair, opposingPair)]
        ELSE [playerId |-> playerId, team1 |-> opposingPair, team2 |-> pair,
              combinationKey |-> CombinationKey(opposingPair, pair)]

\* everything the three nested loops of lines 748-828 try, in the order tried
BalancingOptions ==
    Concat([i \in 1..Len(playersWithMinMatches) |->
      With(playersWithMinMatches[i], LAMBDA playerId :
        With(sortedPartners(playerId), LAMBDA partners :
          With(opposingPairOptions(playerId), LAMBDA opps :
            Concat([j \in 1..Len(partners) |->
                      [k \in 1..Len(opps) |->
                         BalancingFixture(playerId, partners[j], opps[k])]]))))])

\* variant: the first option, its key used or not
FirstOption(options) == IF options = <<>> THEN 0 ELSE 1

\* variant: a scan that gives up after two options
FirstUnusedOfTwo(options) ==
    IF \E i \in 1..Min(2, Len(options)) : options[i].combinationKey \notin usedCombinations
    THEN CHOOSE i \in 1..Min(2, Len(options)) :
             /\ options[i].combinationKey \notin usedCombinations
             /\ \A j \in 1..(i - 1) : options[j].combinationKey \in usedCombinations
    ELSE 0

\* the first option whose key is unused: its index, 0 if there is none
FirstUnused(options) ==
    LET ok == {i \in 1..Len(options) : options[i].combinationKey \notin usedCombinations}
    IN  IF ok = {} THEN 0 ELSE MathMin(ok)

\* variant: a loop without the attempt cap
Phase3ContinueUncapped == maxMatches - minMatches > 1

\* while (maxMatches - minMatches > 1 && balancingAttempts < maxBalancingAttempts)
Phase3Continue ==
    maxMatches - minMatches > 1 /\ balancingAttempts < maxBalancingAttempts

\* one iteration of the while loop of line 736
Phase3Iterate ==
    /\ pc = "phase3"
    /\ Phase3Continue
    /\ balancingAttempts' = balancingAttempts + 1
    /\ \E options \in {BalancingOptions} :
       \E i \in {FirstUnused(options)} :
           IF i # 0
           THEN /\ fixtures' = Append(fixtures,
                       NewFixture(options[i].team1, options[i].team2))
                /\ playerMatchCount' =
                       Bump(playerMatchCount, options[i].team1 \o options[i].team2)
                /\ usedCombinations' = usedCombinations \cup {options[i].combinationKey}
                /\ minMatches' = MathMin(CountValues(
                       Bump(playerMatchCount, options[i].team1 \o options[i].team2)))
                /\ maxMatches' = MathMax(CountValues(
                       Bump(playerMatchCount, options[i].team1 \o options[i].team2)))
                /\ pc' = "phase3"
           ELSE \* if (!matchAdded) break
                /\ pc' = "done"
                /\ UNCHANGED <<fixtures, playerMatchCount, usedCombinations,
                               minMatches, maxMatches>>
    /\ UNCHANGED <<outside, randomValues,
                   team1, team2, matchesPerPlayer, team1Pairs, team2Pairs,
                   totalMatches, shuffledFixtures, playersWithFewMatches>>

\* the loop condition of line 736 fails: return fixtures
Phase3Exit ==
    /\ pc = "phase3"
    /\ ~Phase3Continue
    /\ pc' = "done"
    /\ UNCHANGED <<outside, randomValues,
                   team1, team2, matchesPerPlayer, fixtures, team1Pairs, team2Pairs,
                   playerMatchCount, usedCombinations, totalMatches,
                   shuffledFixtures, playersWithFewMatches, minMatches, maxMatches,
                   balancingAttempts>>

Next ==
    \/ Setup
    \/ Phase1Iterate
    \/ Phase1Exit
    \/ Phase2Visit
    \/ Phase2Exit
    \/ Phase3Iterate
    \/ Phase3Exit

Spec == Init /\ [][Next]_vars

\* The termination check: the inputs with a candidate pool of at most
\* MaxFairPool fixtures, shuffled in the seeded orders.
PoolSize(t) ==
    ((Len(t.team1) * (Len(t.team1) - 1)) \div 2) * ((Len(t.team2) * (Len(t.team2) - 1)) \div 2)

FairInit == InitFrom({in \in Inputs : PoolSize(in.teams) <= MaxFairPool})

\* a call of a synchronous function runs on until it returns
FairSetup == SetupWith(SeededOrders)

FairNext ==
    \/ FairSetup
    \/ Phase1Iterate
    \/ Phase1Exit
    \/ Phase2Visit
    \/ Phase2Exit
    \/ Phase3Iterate
    \/ Phase3Exit

FairSpec == FairInit /\ [][FairNext]_vars /\ WF_vars(FairNext)

----------------------------------------------------------------------------
(* The server calling generateFixtures again and again *)

\* what an invocation was given, what it drew and what it returned
Returned ==
    [teams |-> [team1 |-> team1, team2 |-> team2],
     matchesPerPlayer |-> matchesPerPlayer,
     randomValues |-> randomValues,
     fixtures |-> fixtures]

RepeatInputs ==
    {in \in Inputs : /\ PoolSize(in.teams) \in 1..MaxRepeatPool
                     /\ in.matchesPerPlayer \in 0..MaxRepeatTarget}

RepeatInit == InitFrom(RepeatInputs)

RepeatOrders(n) == {SeededOrder(n, seed) : seed \in 1..NumRepeatSeeds}

RepeatSetup == SetupWith(RepeatOrders)

\* the invocation has returned and the server calls generateFixtures again for
\* the same teams (lines 234 and 303), with whatever target; the constants and
\* variables of the invocation before are gone with it, and the model keeps
\* their last values until the new invocation makes its own
CallAgain ==
    /\ pc = "done"
    /\ Len(returned) + 1 < MaxCalls
    /\ returned' = Append(returned, Returned)
    /\ uuids' = uuids + Len(fixtures)
    /\ \E in \in RepeatInputs :
          /\ in.teams = [team1 |-> team1, team2 |-> team2]
          /\ matchesPerPlayer' = in.matchesPerPlayer
    /\ pc' = "start"
    /\ UNCHANGED <<selectedPlayers, aiAnswer, randomValues, team1, team2, fixtures,
                   team1Pairs, team2Pairs, playerMatchCount, usedCombinations,
                   totalMatches, shuffledFixtures, playersWithFewMatches,
                   minMatches, maxMatches, balancingAttempts,
                   currentTournament, matches, scoreRequests, response, handler,
                   requestCount, request>>

RepeatNext ==
    \/ RepeatSetup
    \/ Phase1Iterate
    \/ Phase1Exit
    \/ Phase2Visit
    \/ Phase2Exit
    \/ Phase3Iterate
    \/ Phase3Exit
    \/ CallAgain

RepeatSpec == RepeatInit /\ [][RepeatNext]_vars

----------------------------------------------------------------------------
(* The server creating a tournament: createBalancedTeams, then generateFixtures *)

\* a player's name (players.name is UNIQUE in the schema); a player is known
\* to the AI by name and to the scheduler by id
NameOf(p) == <<"name", p>>

\* a name that none of the players has
UnknownName == <<"name", 0>>

\* players.find(p => p.name === name) finds a player
HasName(players, name) == \E i \in 1..Len(players) : NameOf(players[i]) = name

\* players.find(p => p.name === name)?.id, for a name that a player has
IdOfName(players, name) ==
    players[CHOOSE i \in 1..Len(players) : NameOf(players[i]) = name]

\* teamData.team1.map(name => players.find(...)?.id).filter(Boolean): the ids
\* of the names that a player has, in the order of the list
IdsOfNames(players, names) ==
    LET kept == {i \in 1..Len(names) : HasName(players, names[i])}
        \* the i-th of the kept places
        place[i \in 1..Cardinality(kept)] ==
            CHOOSE k \in kept : Cardinality({j \in kept : j < k}) = i - 1
    IN  [i \in 1..Cardinality(kept) |-> IdOfName(players, names[place[i]])]

\* variant: Math.floor for Math.ceil
MidFloor(n) == n \div 2

\* const mid = Math.ceil(shuffled.length / 2)
Mid(n) == (n + 1) \div 2

\* createBalancedTeams: the teams read from the AI's lists of names, or, when
\* the call threw or what came back holds no two lists, the players in the
\* shuffled order cut in the middle
createBalancedTeams(players, answer, order) ==
    IF answer.kind = "lists"
    THEN [team1 |-> IdsOfNames(players, answer.team1),
          team2 |-> IdsOfNames(players, answer.team2)]
    ELSE LET shuffled == [k \in 1..Len(players) |-> players[order[k]]]
             mid == Mid(Len(shuffled))
         IN  [team1 |-> SubSeq(shuffled, 1, mid),
              team2 |-> SubSeq(shuffled, mid + 1, Len(shuffled))]

\* the sequences of up to n elements of S
SeqsUpTo(n, S) == UNION {[1..k -> S] : k \in 0..n}

\* how the AI call can end: generateContent throws; the text is no JSON
\* (JSON.parse throws); the JSON has no team1 / team2 arrays (.map throws); or
\* it has the two arrays
AiOutcomes(players) ==
    LET n == Len(players)
        names == [i \in 1..n |-> NameOf(players[i])]
        few == {names[i] : i \in 1..Min(n, MaxNamed)} \cup {UnknownName}
    IN  {[kind |-> "throws"], [kind |-> "noJson"], [kind |-> "noLists"]}
        \cup {[kind |-> "lists", team1 |-> SubSeq(names, 1, cut),
                team2 |-> SubSeq(names, cut + 1, n)] : cut \in 0..n}
        \cup {[kind |-> "lists", team1 |-> a, team2 |-> b] :
                 a, b \in SeqsUpTo(MaxListLen, few)}

\* the targets of the requests
ServerTargets == {MaxRepeatTarget, DefaultMatchesPerPlayer}

\* POST /api/tournament/create arrives
ServerInit ==
    /\ ServerStarted
    /\ pc = "create"
    /\ \E n \in 0..MaxSelected : selectedPlayers = [i \in 1..n |-> i]
    /\ matchesPerPlayer \in ServerTargets
    /\ aiAnswer = [kind |-> "none"]
    /\ returned = <<>>
    /\ team1 = <<>>
    /\ team2 = <<>>
    /\ fixtures = <<>>
    /\ team1Pairs = <<>>
    /\ team2Pairs = <<>>
    /\ playerMatchCount = <<>>
    /\ usedCombinations = {}
    /\ totalMatches = 0
    /\ shuffledFixtures = <<>>
    /\ playersWithFewMatches = <<>>
    /\ minMatches = 0
    /\ maxMatches = 0
    /\ balancingAttempts = 0
    /\ randomValues = <<>>

\* lines 129-131: fewer than 4 players, status 400
RejectCreate ==
    /\ pc = "create"
    /\ Len(selectedPlayers) < MinPlayers
    /\ pc' = "rejected"
    /\ UNCHANGED <<outside, randomValues, team1, team2, matchesPerPlayer, fixtures,
                   team1Pairs, team2Pairs, playerMatchCount, usedCombinations,
                   totalMatches, shuffledFixtures, playersWithFewMatches,
                   minMatches, maxMatches, balancingAttempts>>

\* lines 152-156: the teams are made and generateFixtures is called with them
CreateTeamsFrom(answers, orders) ==
    /\ pc = "create"
    /\ Len(selectedPlayers) >= MinPlayers
    /\ \E answer \in answers :
       \E order \in orders :
       \E teams \in {createBalancedTeams(selectedPlayers, answer, order)} :
          /\ aiAnswer' = answer
          /\ team1' = teams.team1
          /\ team2' = teams.team2
    /\ pc' = "start"
    /\ UNCHANGED <<selectedPlayers, returned, randomValues, matchesPerPlayer,
                   fixtures, team1Pairs, team2Pairs, playerMatchCount,
                   usedCombinations, totalMatches, shuffledFixtures,
                   playersWithFewMatches, minMatches, maxMatches, balancingAttempts,
                   server>>

CreateTeams ==
    CreateTeamsFrom(AiOutcomes(selectedPlayers), SeededOrders(Len(selectedPlayers)))

ServerNext ==
    \/ RejectCreate
    \/ CreateTeams
    \/ RepeatSetup
    \/ Phase1Iterate
    \/ Phase1Exit
    \/ Phase2Visit
    \/ Phase2Exit
    \/ Phase3Iterate
    \/ Phase3Exit

ServerSpec == ServerInit /\ [][ServerNext]_vars

----------------------------------------------------------------------------
(* The server with its cache and the matches table: create, swap-players,   *)
(* regenerate and score requests, one after the other; a score request      *)
(* waits at its await while other requests are served                       *)

\* the requests that the server receives
MaxRequests == 3
\* tournaments of MinPlayers .. MaxTournamentPlayers players
MaxTournamentPlayers == 6
MaxTournamentTarget == 2
NumTournamentSeeds == 1
\* scores 0 .. MaxScore
MaxScore == 1
\* the player ids of a swap request: 0 for a missing id, 1 .. MaxSwapId
MaxSwapId == 5

Scores == 0..MaxScore
SwapIds == 0..MaxSwapId

\* the AI call fails, or answers with the players' names cut into two lists
\* of one name or more
TournamentAnswers(players) ==
    {[kind |-> "throws"]}
    \cup {[kind |-> "lists",
           team1 |-> [i \in 1..cut |-> NameOf(players[i])],
           team2 |-> [i \in 1..(Len(players) - cut) |-> NameOf(players[cut + i])]] :
             cut \in 1..(Len(players) - 1)}

TournamentOrders(n) == {SeededOrder(n, seed) : seed \in 1..NumTournamentSeeds}

\* what the handlers leave alone of the state of generateFixtures
locals == <<fixtures, team1Pairs, team2Pairs, playerMatchCount, usedCombinations,
            totalMatches, shuffledFixtures, playersWithFewMatches, minMatches,
            maxMatches, balancingAttempts, randomValues>>

\* the server is listening and has received nothing
TournamentInit ==
    /\ ServerStarted
    /\ pc = "idle"
    /\ selectedPlayers = <<>>
    /\ matchesPerPlayer = DefaultMatchesPerPlayer
    /\ aiAnswer = [kind |-> "none"]
    /\ returned = <<>>
    /\ team1 = <<>>
    /\ team2 = <<>>
    /\ fixtures = <<>>
    /\ team1Pairs = <<>>
    /\ team2Pairs = <<>>
    /\ playerMatchCount = <<>>
    /\ usedCombinations = {}
    /\ totalMatches = 0
    /\ shuffledFixtures = <<>>
    /\ playersWithFewMatches = <<>>
    /\ minMatches = 0
    /\ maxMatches = 0
    /\ balancingAttempts = 0
    /\ randomValues = <<>>

\* a request arrives while no handler is running
Receive(body) ==
    /\ pc = "idle"
    /\ requestCount < MaxRequests
    /\ requestCount' = requestCount + 1
    /\ request' = body

Answer(to, status) == [to |-> to, status |-> status]

\* POST /api/tournament/create with at least 4 players, all in the players
\* table: lines 125-150
CreateArrives ==
    /\ \E n \in MinPlayers..MaxTournamentPlayers :
          /\ Receive([to |-> "create", playerIds |-> [i \in 1..n |-> i],
                      matchesPerPlayer |-> MaxTournamentTarget])
          /\ selectedPlayers' = [i \in 1..n |-> i]
    /\ matchesPerPlayer' = MaxTournamentTarget
    /\ handler' = "create"
    /\ pc' = "create"
    /\ UNCHANGED <<locals, team1, team2, aiAnswer, returned, currentTournament,
                   matches, uuids, scoreRequests, response>>

TournamentCreateTeams ==
    CreateTeamsFrom(TournamentAnswers(selectedPlayers),
                    TournamentOrders(Len(selectedPlayers)))

TournamentSetup == SetupWith(TournamentOrders)

\* lines 173-184: the row of the matches table for a fixture
MatchRow(fixture, tournamentId) ==
    [id |-> fixture.id, tournament_id |-> tournamentId,
     team1_player1_id |-> fixture.team1[1], team1_player2_id |-> fixture.team1[2],
     team2_player1_id |-> fixture.team2[1], team2_player2_id |-> fixture.team2[2],
     team1_score |-> "null", team2_score |-> "null", winner_team |-> "null",
     status |-> "pending"]

\* .from('matches').insert(matchesData)
InsertMatches(table, fs, tournamentId) ==
    [id \in DOMAIN table \cup {fs[i].id : i \in 1..Len(fs)} |->
        IF id \in DOMAIN table THEN table[id]
        ELSE MatchRow(fs[CHOOSE i \in 1..Len(fs) : fs[i].id = id], tournamentId)]

\* lines 158-207: generateFixtures has returned to the create handler; the
\* tournament and its matches are inserted and the tournament is cached
StoreTournament ==
    /\ pc = "done"
    /\ handler = "create"
    /\ matches' = InsertMatches(matches, fixtures, currentTournament.id + 1)
    /\ currentTournament' =
           [status |-> "active", id |-> currentTournament.id + 1,
            teams |-> [team1 |-> team1, team2 |-> team2],
            fixtures |-> fixtures, matchesPerPlayer |-> matchesPerPlayer]
    /\ uuids' = uuids + Len(fixtures)
    /\ response' = Answer("create", 200)
    /\ handler' = "none"
    /\ pc' = "idle"
    /\ UNCHANGED <<locals, team1, team2, matchesPerPlayer, selectedPlayers, aiAnswer,
                   returned, scoreRequests, requestCount, request>>

\* Array.prototype.indexOf, counted from 1: 0 stands for -1
IndexOf(s, x) ==
    IF Includes(s, x)
    THEN CHOOSE i \in 1..Len(s) : s[i] = x /\ \A j \in 1..(i - 1) : s[j] # x
    ELSE 0

\* lines 271-279: the team and the place of a player, team1 looked at first
TeamOf(teams, p) == IF IndexOf(teams.team1, p) # 0 THEN "team1" ELSE "team2"
PlaceOf(teams, p) ==
    IF IndexOf(teams.team1, p) # 0 THEN IndexOf(teams.team1, p)
    ELSE IndexOf(teams.team2, p)

\* variant: the second player takes the first one's place, the first one stays
SwapCopyingOne(teams, p, q) ==
    [t \in {"team1", "team2"} |->
        [i \in 1..Len(teams[t]) |->
            IF t = TeamOf(teams, p) /\ i = PlaceOf(teams, p) THEN q
            ELSE teams[t][i]]]

\* lines 285-300: the two destructuring assignments; each reads the two
\* places and then writes them
Swap(teams, p, q) ==
    [t \in {"team1", "team2"} |->
        [i \in 1..Len(teams[t]) |->
            IF t = TeamOf(teams, p) /\ i = PlaceOf(teams, p)
            THEN teams[TeamOf(teams, q)][PlaceOf(teams, q)]
            ELSE IF t = TeamOf(teams, q) /\ i = PlaceOf(teams, q)
            THEN teams[TeamOf(teams, p)][PlaceOf(teams, p)]
            ELSE teams[t][i]]]

\* the checks of lines 256-283 turn the request down
SwapRefused(player1Id, player2Id) ==
    \/ currentTournament.status = "null"
    \/ player1Id = 0
    \/ player2Id = 0
    \/ player1Id = player2Id
    \/ PlaceOf(currentTournament.teams, player1Id) = 0
    \/ PlaceOf(currentTournament.teams, player2Id) = 0

\* POST /api/tournament/swap-players, lines 254-303: the request is turned
\* down with 400, or the players are swapped in the cached teams and
\* generateFixtures is called with them
SwapPlayers ==
    /\ \E player1Id, player2Id \in SwapIds :
          /\ Receive([to |-> "swap-players", player1Id |-> player1Id,
                      player2Id |-> player2Id])
          /\ IF SwapRefused(player1Id, player2Id)
             THEN /\ response' = Answer("swap-players", 400)
                  /\ UNCHANGED <<currentTournament, team1, team2, matchesPerPlayer,
                                 handler, pc>>
             ELSE \E teams \in {Swap(currentTournament.teams, player1Id, player2Id)} :
                  /\ currentTournament' =
                         [currentTournament EXCEPT
                              !.teams = [team1 |-> SubSeq(teams.team1, 1, Len(teams.team1)),
                                         team2 |-> SubSeq(teams.team2, 1, Len(teams.team2))]]
                  /\ team1' = SubSeq(teams.team1, 1, Len(teams.team1))
                  /\ team2' = SubSeq(teams.team2, 1, Len(teams.team2))
                  /\ matchesPerPlayer' = currentTournament.matchesPerPlayer
                  /\ handler' = "swap-players"
                  /\ pc' = "start"
                  /\ UNCHANGED response
    /\ UNCHANGED <<locals, selectedPlayers, aiAnswer, returned, matches, uuids,
                   scoreRequests>>

\* lines 303-310: generateFixtures has returned to the swap handler; the new
\* fixtures replace the cached ones
StoreSwap ==
    /\ pc = "done"
    /\ handler = "swap-players"
    /\ currentTournament' = [currentTournament EXCEPT !.fixtures = fixtures]
    /\ uuids' = uuids + Len(fixtures)
    /\ response' = Answer("swap-players", 200)
    /\ handler' = "none"
    /\ pc' = "idle"
    /\ UNCHANGED <<locals, team1, team2, matchesPerPlayer, selectedPlayers, aiAnswer,
                   returned, matches, scoreRequests, requestCount, request>>

\* POST /api/tournament/regenerate, lines 214-252: 400 without a tournament;
\* with one, line 224 reads `players`, a name that nothing in scope of the
\* handler declares: the ReferenceError is caught at line 248 and answered 500
Regenerate ==
    /\ Receive([to |-> "regenerate", matchesPerPlayer |-> MaxTournamentTarget])
    /\ response' = Answer("regenerate",
                          IF currentTournament.status = "null" THEN 400 ELSE 500)
    /\ UNCHANGED <<locals, pc, team1, team2, matchesPerPlayer, selectedPlayers,
                   aiAnswer, returned, currentTournament, matches, uuids,
                   scoreRequests, handler>>

\* currentTournament.fixtures.find(f => f.id === fixtureId): its place, 0 for
\* undefined
FindFixture(fs, fixtureId) ==
    IF \E i \in 1..Len(fs) : fs[i].id = fixtureId
    THEN CHOOSE i \in 1..Len(fs) :
             fs[i].id = fixtureId /\ \A j \in 1..(i - 1) : fs[j].id # fixtureId
    ELSE 0

\* the fixture ids of a score request: 0, an id that no fixture has, or the id
\* of a cached fixture or of a row
FixtureIds ==
    {0} \cup DOMAIN matches
        \cup {currentTournament.fixtures[i].id : i \in 1..Len(currentTournament.fixtures)}

\* variant: team 1 also wins a draw
WinnerTeamOnDraw(team1Score, team2Score) == IF team1Score >= team2Score THEN 1 ELSE 2

\* const winnerTeam = team1Score > team2Score ? 1 : 2
WinnerTeam(team1Score, team2Score) == IF team1Score > team2Score THEN 1 ELSE 2

\* variant: no look at the fixture's status
ScoreStatusOfAny(fixtureId) ==
    IF currentTournament.status = "null" THEN 400
    ELSE IF FindFixture(currentTournament.fixtures, fixtureId) = 0 THEN 404
    ELSE 200

\* lines 321-332: the status that the checks of the score handler lead to, 200
\* when they let the request through
ScoreStatus(fixtureId) ==
    IF currentTournament.status = "null" THEN 400
    ELSE IF FindFixture(currentTournament.fixtures, fixtureId) = 0 THEN 404
    ELSE IF currentTournament.fixtures[
                FindFixture(currentTournament.fixtures, fixtureId)].status # "pending"
    THEN 400
    ELSE 200

\* POST /api/tournament/score, lines 317-346: the request is answered 400 or
\* 404, or the update of the row is sent and the handler waits for it
ScoreArrives ==
    /\ \E fixtureId \in FixtureIds, team1Score, team2Score \in Scores :
          /\ Receive([to |-> "score", fixtureId |-> fixtureId,
                      team1Score |-> team1Score, team2Score |-> team2Score])
          /\ IF ScoreStatus(fixtureId) # 200
             THEN /\ response' = Answer("score", ScoreStatus(fixtureId))
                  /\ UNCHANGED scoreRequests
             ELSE /\ scoreRequests' = scoreRequests \cup
                         {[no |-> requestCount + 1, fixtureId |-> fixtureId,
                           team1Score |-> team1Score, team2Score |-> team2Score,
                           winnerTeam |-> WinnerTeam(team1Score, team2Score),
                           updated |-> FALSE]}
                  /\ UNCHANGED response
    /\ UNCHANGED <<locals, pc, team1, team2, matchesPerPlayer, selectedPlayers,
                   aiAnswer, returned, currentTournament, matches, uuids, handler>>

\* .from('matches').update({...}).eq('id', fixtureId): the database updates
\* the rows with that id, if any
UpdateMatch(table, r) ==
    [id \in DOMAIN table |->
        IF id = r.fixtureId
        THEN [table[id] EXCEPT !.team1_score = r.team1Score,
                               !.team2_score = r.team2Score,
                               !.winner_team = r.winnerTeam,
                               !.status = "completed"]
        ELSE table[id]]

\* the database carries out the update of a waiting score request
ScoreDbUpdate ==
    /\ \E r \in scoreRequests :
          /\ ~r.updated
          /\ matches' = UpdateMatch(matches, r)
          /\ scoreRequests' = (scoreRequests \ {r}) \cup {[r EXCEPT !.updated = TRUE]}
    /\ UNCHANGED <<locals, pc, team1, team2, matchesPerPlayer, selectedPlayers,
                   aiAnswer, returned, currentTournament, uuids, response, handler,
                   requestCount, request>>

\* lines 349-354: the fixture object that the handler found is completed
Complete(fs, r) ==
    [i \in 1..Len(fs) |->
        IF fs[i].id = r.fixtureId
        THEN [fs[i] EXCEPT !.status = "completed",
                           !.team1Score = r.team1Score,
                           !.team2Score = r.team2Score,
                           !.winner = IF r.team1Score > r.team2Score
                                      THEN "team1" ELSE "team2"]
        ELSE fs[i]]

\* lines 347-356: the await is over; the handler goes on when no other
\* handler is running, completes the fixture it had found (which is in the
\* cache unless the fixtures were replaced meanwhile) and answers with it
ScoreFinish ==
    /\ pc = "idle"
    /\ \E r \in scoreRequests :
          /\ r.updated
          /\ currentTournament' =
                 [currentTournament EXCEPT
                      !.fixtures = SubSeq(Complete(@, r), 1, Len(@))]
          /\ scoreRequests' = scoreRequests \ {r}
    /\ response' = Answer("score", 200)
    /\ UNCHANGED <<locals, pc, team1, team2, matchesPerPlayer, selectedPlayers,
                   aiAnswer, returned, matches, uuids, handler, requestCount, request>>

TournamentNext ==
    \/ CreateArrives
    \/ TournamentCreateTeams
    \/ TournamentSetup
    \/ Phase1Iterate
    \/ Phase1Exit
    \/ Phase2Visit
    \/ Phase2Exit
    \/ Phase3Iterate
    \/ Phase3Exit
    \/ StoreTournament
    \/ SwapPlayers
    \/ StoreSwap
    \/ Regenerate
    \/ ScoreArrives
    \/ ScoreDbUpdate
    \/ ScoreFinish

TournamentSpec == TournamentInit /\ [][TournamentNext]_vars

----------------------------------------------------------------------------
(* What the claims speak of *)

Roster == Range(team1) \cup Range(team2)

\* the teams share no player and name no player twice
DisjointTeams ==
    Cardinality(Roster) = Len(team1) + Len(team2)

ValidInput ==
    /\ DisjointTeams
    /\ Len(team1) >= 2
    /\ Len(team2) >= 2
    /\ matchesPerPlayer >= 1

\* the number of returned fixtures a player appears in
Appearances(p) ==
    Cardinality({i \in 1..Len(fixtures) :
                    Includes(fixtures[i].team1 \o fixtures[i].team2, p)})

effectiveTarget == Min(matchesPerPlayer, 2 * (Len(team1) + Len(team2)))

IsPairOf(pair, team) ==
    /\ Len(pair) = 2
    /\ pair[1] # pair[2]
    /\ pair[1] \in Range(team)
    /\ pair[2] \in Range(team)

IsScenarioA ==
    /\ team1 = <<1, 2, 3, 4, 5>>
    /\ team2 = <<6, 7, 8, 9, 10>>
    /\ matchesPerPlayer = 6

IsScenarioB ==
    /\ team1 = <<1, 2>>
    /\ team2 = <<3, 4>>
    /\ matchesPerPlayer = 6

----------------------------------------------------------------------------
(* The claims *)

\* C1: with disjoint teams, no two fixtures committed so far (by any of the
\* three passes) set the same unordered Team-1 pair against the same unordered
\* Team-2 pair.
NoRepeatedCombination ==
    DisjointTeams =>
        \A i, j \in 1..Len(fixtures) :
            i # j => ~(/\ Range(fixtures[i].team1) = Range(fixtures[j].team1)
                       /\ Range(fixtures[i].team2) = Range(fixtures[j].team2))

\* C1 witness: a returned schedule with Phase-1 fixtures and fixtures of a
\* later pass
RepairedScheduleReturned ==
    /\ pc = "done"
    /\ totalMatches >= 1
    /\ Len(fixtures) > totalMatches

\* C2: with disjoint teams, every fixture has two distinct players of Team 1
\* as team1 and two distinct players of Team 2 as team2.
TeamIntegrity ==
    DisjointTeams =>
        \A i \in 1..Len(fixtures) :
            /\ IsPairOf(fixtures[i].team1, team1)
            /\ IsPairOf(fixtures[i].team2, team2)

\* C2 witness: a Phase-3 fixture was just committed for a minimum-count player
\* of Team 2 (the two players of a Team 1 of two are in every fixture, so they
\* are never below the maximum)
RepairForTeam2Player ==
    /\ pc = "phase3"
    /\ balancingAttempts >= 1
    /\ Len(team1) = 2
    /\ Len(team2) > 2

\* C3, as claimed: for valid input no player appears in more than
\* effectiveTarget + 1 of the returned fixtures.
HardCapOnReturn ==
    (pc = "done" /\ ValidInput) =>
        \A p \in Roster : Appearances(p) <= effectiveTarget + 1

\* C4, as claimed: for valid input the returned participation counts of any
\* two players differ by at most 1.
BalancedOnReturn ==
    (pc = "done" /\ ValidInput) =>
        \A p, q \in Roster : Appearances(p) - Appearances(q) <= 1

\* C5: 5 against 5 with target 6: every player is in 5, 6 or 7 of the returned
\* fixtures and the counts differ by at most 1.
ScenarioABalanced ==
    (pc = "done" /\ IsScenarioA) =>
        /\ \A p \in Roster : Appearances(p) \in 5..7
        /\ \A p, q \in Roster : Appearances(p) - Appearances(q) <= 1

\* C5 witness: Scenario A returned, with players on two neighbouring counts
ScenarioAReturned ==
    /\ pc = "done"
    /\ IsScenarioA
    /\ \E p, q \in Roster : Appearances(p) = Appearances(q) + 1

\* C6, as claimed: 5 against 5 with target 6 returns 20 to 25 fixtures.
ScenarioATwentyToTwentyFive ==
    (pc = "done" /\ IsScenarioA) => Len(fixtures) \in 20..25

\* C6, amended: 5 against 5 with target 6 returns 17 fixtures.
ScenarioASeventeen ==
    (pc = "done" /\ IsScenarioA) => Len(fixtures) = 17

\* C6 witness: Scenario A returned what Phase 1 committed
ScenarioAPhase1Only ==
    /\ pc = "done"
    /\ IsScenarioA
    /\ Len(fixtures) = totalMatches

\* C7: [P1,P2] against [P3,P4] with target 6 returns the one fixture
\* P1,P2 vs P3,P4, every player in it once.
ScenarioBOneFixture ==
    (pc = "done" /\ IsScenarioB) =>
        /\ Len(fixtures) = 1
        /\ fixtures[1].team1 = <<1, 2>>
        /\ fixtures[1].team2 = <<3, 4>>
        /\ \A p \in Roster : Appearances(p) = 1

\* C7 witness: Scenario B returned; the backfill pass visited all four players
ScenarioBReturned ==
    /\ pc = "done"
    /\ IsScenarioB
    /\ playersWithFewMatches = <<>>
    /\ usedCombinations # {}

\* C8: a team of fewer than 2 players gives an empty result, whatever the
\* target and the other team.
DegenerateTeamEmpty ==
    (pc = "done" /\ (Len(team1) < 2 \/ Len(team2) < 2)) => fixtures = <<>>

\* C8 witness: returned for a team of one against a team that has pairs
DegenerateTeamReturned ==
    /\ pc = "done"
    /\ Len(team1) = 1
    /\ Len(team2) >= 3
    /\ matchesPerPlayer >= 1

\* C9, as claimed: a target of 0 or less gives an empty result.
NonPositiveTargetEmpty ==
    (pc = "done" /\ matchesPerPlayer <= 0) => fixtures = <<>>

\* C10: every invocation returns; an iteration of the Phase-1 loop shrinks the
\* pool or ends the phase, Phase 2 drops the visited player from its list, and
\* Phase 3 counts its iterations up to at most maxBalancingAttempts.
Termination ==
    /\ <>(pc = "done")
    /\ [][pc = "phase1" =>
            \/ Len(shuffledFixtures') < Len(shuffledFixtures)
            \/ pc' # "phase1"]_vars
    /\ [][(pc = "phase2" /\ pc' = "phase2") =>
            Len(playersWithFewMatches') = Len(playersWithFewMatches) - 1]_vars
    /\ [][(pc = "phase3" /\ pc' = "phase3") =>
            balancingAttempts' = balancingAttempts + 1]_vars
    /\ [](balancingAttempts <= maxBalancingAttempts)

\* C10 witness: returned after iterations of all three loops
AllLoopsRan ==
    /\ pc = "done"
    /\ totalMatches >= 2
    /\ balancingAttempts >= 2
    /\ Len(team1) >= 2 /\ Len(team2) >= 2 /\ matchesPerPlayer <= 2

\* the pairs of a fixture list in their order, the generated ids aside
Pairings(fs) == [i \in 1..Len(fs) |-> <<fs[i].team1, fs[i].team2>>]

\* an invocation that returned was given what the current one was given
SameInputs(r) ==
    /\ r.teams = [team1 |-> team1, team2 |-> team2]
    /\ r.matchesPerPlayer = matchesPerPlayer

KeysOf(fs) == {CombinationKey(fs[i].team1, fs[i].team2) : i \in 1..Len(fs)}

\* C12: an invocation leaves the team lists as they were, and its counters
\* and its set of used combinations are its own: from its first step on they
\* hold what this invocation committed and nothing of an earlier one.
NoSharedState ==
    /\ [][team1' = team1 /\ team2' = team2]_vars
    /\ [](pc \in {"phase1", "phase2", "phase3", "done"} =>
            /\ usedCombinations = KeysOf(fixtures)
            /\ DOMAIN playerMatchCount = Roster
            /\ \A p \in Roster : playerMatchCount[p] = Appearances(p))

\* C12 witness: the second invocation committed a combination that the first
\* invocation had used as well
CombinationUsedAgain ==
    /\ Len(returned) = 1
    /\ pc = "phase1"
    /\ fixtures # <<>>
    /\ KeysOf(fixtures) \cap KeysOf(returned[1].fixtures) # {}

\* the players of Team 1 (of Team 2) that are in both fixtures i and j
SharedTeam1(i, j) == Range(fixtures[i].team1) \cap Range(fixtures[j].team1)
SharedTeam2(i, j) == Range(fixtures[i].team2) \cap Range(fixtures[j].team2)

AiFailed == aiAnswer.kind \in {"throws", "noJson", "noLists"}

\* C14: when the AI call fails, generateFixtures is called with the random
\* split: disjoint teams that together are the selected players, of
\* ceil(n/2) and floor(n/2) players, so at least 2 each from 4 players on.
FallbackSplit ==
    (pc = "start" /\ AiFailed) =>
        /\ DisjointTeams
        /\ Roster = Range(selectedPlayers)
        /\ Len(team1) + Len(team2) = Len(selectedPlayers)
        /\ Len(team1) - Len(team2) \in {0, 1}
        /\ Len(selectedPlayers) >= 4 => (Len(team1) >= 2 /\ Len(team2) >= 2)

\* C14 witness: the AI's JSON had no lists, and five players were split in a
\* shuffled order
FallbackForFive ==
    /\ pc = "start"
    /\ aiAnswer.kind = "noLists"
    /\ Len(selectedPlayers) = 5
    /\ team1 \o team2 # selectedPlayers

\* C15, as claimed: every call of generateFixtures by the server passes two
\* disjoint lists of at least 2 players each that together are the selected
\* players, whatever the AI returned.
CallsGetValidTeams ==
    pc = "start" =>
        /\ DisjointTeams
        /\ Len(team1) >= 2
        /\ Len(team2) >= 2
        /\ Roster = Range(selectedPlayers)

hardCap == effectiveTarget + 1

\* a Phase-1 iteration that commits a fixture
Phase1Commit == pc = "phase1" /\ pc' = "phase1" /\ Len(fixtures') = Len(fixtures) + 1

\* the fixture just committed
Committed == fixtures'[Len(fixtures')]

\* the candidates of the pool none of whose players has reached hardCap
Eligible ==
    {c \in Range(shuffledFixtures) :
        \A p \in Range(PlayersOf(c)) : playerMatchCount[p] < hardCap}

\* the smallest count and the sum of the counts of four players
LeastCount(ids) == CHOOSE n \in CountsOf(ids) : \A m \in CountsOf(ids) : n <= m
CountSum(ids) ==
    playerMatchCount[ids[1]] + playerMatchCount[ids[2]]
        + playerMatchCount[ids[3]] + playerMatchCount[ids[4]]

\* C16: a fixture committed in Phase 1 is an eligible candidate of the pool
\* with the smallest minimum count among the eligible ones and, among those,
\* the smallest sum of counts (counts as before the commit).
Phase1CommitsBest ==
    [][Phase1Commit =>
        /\ \E c \in Eligible :
               c.team1Pair = Committed.team1 /\ c.team2Pair = Committed.team2
        /\ \A c \in Eligible :
               LET mine == Committed.team1 \o Committed.team2
                   other == PlayersOf(c)
               IN  \/ LeastCount(mine) < LeastCount(other)
                   \/ /\ LeastCount(mine) = LeastCount(other)
                      /\ CountSum(mine) <= CountSum(other)]_vars

\* C16 witness: Phase 1 has committed fixtures and goes on to choose from a
\* pool that holds eligible candidates and candidates with a player at hardCap
Phase1ChoosesAmongEligible ==
    /\ pc = "phase1"
    /\ Len(fixtures) >= 2
    /\ BelowMaxTotalMatches(totalMatches)
    /\ Eligible # {}
    /\ Eligible # Range(shuffledFixtures)

\* one of the candidate's four players has reached hardCap
AtHardCap(c) == \E p \in Range(PlayersOf(c)) : playerMatchCount[p] >= hardCap

\* the candidates that a step takes out of the pool
Dropped == Range(shuffledFixtures) \ Range(shuffledFixtures')

\* C17: Phase 1 commits no candidate with a player already at hardCap, leaves
\* no count above hardCap, and every candidate it drops from the pool without
\* committing it has a player at hardCap when dropped.
Phase1KeepsHardCap ==
    /\ [][Phase1Commit =>
            \A p \in Range(Committed.team1 \o Committed.team2) :
                playerMatchCount[p] < hardCap]_vars
    /\ [][pc = "phase1" =>
            \A p \in Roster : playerMatchCount'[p] <= hardCap]_vars
    /\ [][pc = "phase1" =>
            \A c \in Dropped :
                \/ AtHardCap(c)
                \/ /\ Len(fixtures') = Len(fixtures) + 1
                   /\ c.team1Pair = Committed.team1
                   /\ c.team2Pair = Committed.team2]_vars

\* C17 witness: Phase 1 has just ended by dropping the candidates that were
\* left, after committing some
Phase1DroppedTheRest ==
    /\ pc = "phase2"
    /\ shuffledFixtures = <<>>
    /\ playersWithFewMatches = FewMatches(playerMatchCount)
    /\ totalMatches >= 1
    /\ Len(fixtures) = totalMatches
    /\ totalMatches < Len(team1Pairs) * Len(team2Pairs)

\* C18: Phase 1 commits at most maxTotalFixtures fixtures, the smaller of
\* |pairsA| * |pairsB| and effectiveTarget * (|A| + |B|) / 2, also when the
\* latter is no integer (compared on the doubled values; a bound below 0
\* allows 0 commits).
Phase1WithinMaxTotal ==
    pc # "start" =>
        /\ totalMatches <= Len(team1Pairs) * Len(team2Pairs)
        /\ 2 * totalMatches <= Max(0, effectiveTarget * (Len(team1) + Len(team2)))

\* C18 witness: Phase 1 is over with as many commits as fit under a bound that
\* is no integer
Phase1UnderHalfBound ==
    /\ pc = "phase2"
    /\ (effectiveTarget * (Len(team1) + Len(team2))) % 2 = 1
    /\ 2 * totalMatches + 1 = effectiveTarget * (Len(team1) + Len(team2))

\* Phase 2 visits a player
Phase2Step == pc = "phase2" /\ playersWithFewMatches # <<>>

\* the player that Phase 2 visits next
Visited == Head(playersWithFewMatches)

OwnPairs == IF Visited \in Range(team1) THEN team1Pairs ELSE team2Pairs
OpposingPairs == IF Visited \in Range(team1) THEN team2Pairs ELSE team1Pairs

\* the located own-team pair: the first pair of the team with the player in it
HasOwnPair == \E i \in 1..Len(OwnPairs) : Visited \in Range(OwnPairs[i])
OwnPair ==
    OwnPairs[CHOOSE i \in 1..Len(OwnPairs) :
                /\ Visited \in Range(OwnPairs[i])
                /\ \A j \in 1..(i - 1) : Visited \notin Range(OwnPairs[j])]

\* the key of the own pair set against an opposing pair
BackfillKey(opp) ==
    IF Visited \in Range(team1) THEN CombinationKey(OwnPair, opp)
    ELSE CombinationKey(opp, OwnPair)

\* the opposing pairs with no player at or above hardCap whose combination
\* with the own pair is unused
OpenOpposingPairs ==
    {opp \in Range(OpposingPairs) :
        /\ \A q \in Range(opp) : playerMatchCount[q] < hardCap
        /\ BackfillKey(opp) \notin usedCombinations}

BackfillKeepsHardCap ==
    [][(pc = "phase2" /\ Len(fixtures') = Len(fixtures) + 1) =>
          \A p \in Range(Committed.team1 \o Committed.team2) :
              playerMatchCount[p] < hardCap]_vars

\* a Phase-3 iteration that commits a fixture
Phase3Commit == pc = "phase3" /\ Len(fixtures') = Len(fixtures) + 1

\* the option that the Phase-3 scan settles on: the minimum-count player it is
\* for, that player's pair and the pair of the other team
Chosen == BalancingOptions[FirstUnused(BalancingOptions)]
PairOf(c) == IF Includes(team1, c.playerId) THEN c.team1 ELSE c.team2
OpposingPairOf(c) == IF Includes(team1, c.playerId) THEN c.team2 ELSE c.team1
PartnerOf(c) == CHOOSE q \in Range(PairOf(c)) : q # c.playerId

\* the team-mates of a player
TeamMates(p) ==
    (IF Includes(team1, p) THEN Range(team1) ELSE Range(team2)) \ {p}

RepairKey(p, q, opp) ==
    IF Includes(team1, p) THEN CombinationKey(<<p, q>>, opp)
    ELSE CombinationKey(opp, <<p, q>>)

\* the pairs of the team that p is not in
PairsAgainst(p) == IF Includes(team1, p) THEN team2Pairs ELSE team1Pairs

\* q has an opposing pair whose combination with the pair of p and q is unused
HasUnusedWith(p, q) ==
    \E opp \in Range(PairsAgainst(p)) : RepairKey(p, q, opp) \notin usedCombinations

CountBeforeLast(p) ==
    LET last == fixtures[Len(fixtures)]
    IN  playerMatchCount[p] - (IF p \in Range(last.team1 \o last.team2) THEN 1 ELSE 0)

----------------------------------------------------------------------------
(* An invocation whose repair loop runs into its attempt cap *)

\* the size of the larger team and the target of the inputs below
CapTeamSize == 15
CapTarget == 1
NumCapSeeds == 3

\* a pair against a team of 2 or of CapTeamSize players.  Against the large
\* team Phase 1 stops when the pair reaches its cap and every repair raises
\* the pair's counts again, so that more combinations are left for Phase 3
\* than it has attempts
CapInputs ==
    {[teams |-> t, matchesPerPlayer |-> CapTarget] :
        t \in {TeamsAsc(2, n) : n \in {2, CapTeamSize}}
              \cup {TeamsAsc(n, 2) : n \in {2, CapTeamSize}}}

CapInit == InitFrom(CapInputs)

CapOrders(n) == {SeededOrder(n, seed) : seed \in 1..NumCapSeeds}

CapSetup == SetupWith(CapOrders)

CapNext ==
    \/ CapSetup
    \/ Phase1Iterate
    \/ Phase1Exit
    \/ Phase2Visit
    \/ Phase2Exit
    \/ Phase3Iterate
    \/ Phase3Exit

CapSpec == CapInit /\ [][CapNext]_vars

\* C22: Phase 3 starts with 0 attempts, every iteration is one attempt and
\* commits at most one fixture, no iteration starts after 100 attempts (so at
\* most 100 repair fixtures are committed), and after a commit minMatches and
\* maxMatches are the smallest and the largest count of the new counts.
RepairCapped ==
    /\ [][(pc = "phase2" /\ pc' = "phase3") => balancingAttempts' = 0]_vars
    /\ [][(pc = "phase3" /\ fixtures' # fixtures) =>
             /\ balancingAttempts < maxBalancingAttempts
             /\ balancingAttempts' = balancingAttempts + 1
             /\ Len(fixtures') = Len(fixtures) + 1
             /\ SubSeq(fixtures', 1, Len(fixtures)) = fixtures]_vars
    /\ [][Phase3Commit =>
             /\ \A p \in Roster : minMatches' <= playerMatchCount'[p]
             /\ \E p \in Roster : minMatches' = playerMatchCount'[p]
             /\ \A p \in Roster : maxMatches' >= playerMatchCount'[p]
             /\ \E p \in Roster : maxMatches' = playerMatchCount'[p]]_vars
    /\ [](pc \in {"phase3", "done"} =>
             /\ balancingAttempts <= maxBalancingAttempts
             /\ Len(fixtures) <= totalMatches + Cardinality(Roster) + balancingAttempts)

\* C22 witness: the invocation has returned after 100 repair fixtures, with
\* the counts still more than 1 apart
RepairCapReached ==
    /\ pc = "done"
    /\ balancingAttempts = maxBalancingAttempts
    /\ maxMatches - minMatches > 1
    /\ Len(fixtures) >= maxBalancingAttempts

----------------------------------------------------------------------------
(* Invocations with a team of three against a larger team *)

SkewTeamSize == 5
MaxSkewTarget == 2
NumSkewSeeds == 8

\* three players have three pairs only: their players run out of unused
\* combinations against the pairs of the larger team that are low on matches
SkewInputs ==
    {[teams |-> t, matchesPerPlayer |-> m] :
        t \in {TeamsAsc(3, SkewTeamSize), TeamsAsc(SkewTeamSize, 3)},
        m \in 0..MaxSkewTarget}

SkewInit == InitFrom(SkewInputs)

SkewOrders(n) == {SeededOrder(n, seed) : seed \in 1..NumSkewSeeds}

SkewSetup == SetupWith(SkewOrders)

SkewNext ==
    \/ SkewSetup
    \/ Phase1Iterate
    \/ Phase1Exit
    \/ Phase2Visit
    \/ Phase2Exit
    \/ Phase3Iterate
    \/ Phase3Exit

SkewSpec == SkewInit /\ [][SkewNext]_vars

\* the combined count of a pair
PairCount(pair) == playerMatchCount[pair[1]] + playerMatchCount[pair[2]]

\* C23: a fixture committed in Phase 3 is the chosen pair against the chosen
\* opposing pair; it contains a player whose count is the smallest of all
\* counts before the commit, its combination is unused, and no opposing pair
\* whose combination with the chosen pair is unused has a lower combined count.
RepairPicksLowestOpposingPair ==
    [][(Phase3Commit /\ DisjointTeams) =>
          \E c \in {Chosen} :
              /\ Committed.team1 = c.team1
              /\ Committed.team2 = c.team2
              /\ c.playerId \in Range(Committed.team1 \o Committed.team2)
              /\ \A r \in Roster : playerMatchCount[c.playerId] <= playerMatchCount[r]
              /\ RepairKey(c.playerId, PartnerOf(c), OpposingPairOf(c)) \notin usedCombinations
              /\ \A opp \in Range(PairsAgainst(c.playerId)) :
                     RepairKey(c.playerId, PartnerOf(c), opp) \notin usedCombinations =>
                         PairCount(OpposingPairOf(c)) <= PairCount(opp)]_vars

\* C23 witness: after an earlier repair, Phase 3 is about to commit a fixture
\* against an opposing pair that is not the one with the lowest combined
\* count, the combinations with the lower pairs being used
RepairSkipsUsedPairs ==
    /\ pc = "phase3"
    /\ DisjointTeams
    /\ Phase3Continue
    /\ balancingAttempts >= 1
    /\ FirstUnused(BalancingOptions) # 0
    /\ \E c \in {Chosen} :
       \E opp \in Range(PairsAgainst(c.playerId)) :
           /\ PairCount(opp) < PairCount(OpposingPairOf(c))
           /\ RepairKey(c.playerId, PartnerOf(c), opp) \in usedCombinations

\* the smallest and the largest count of the players
LowestCount == MathMin(CountValues(playerMatchCount))
HighestCount == MathMax(CountValues(playerMatchCount))

\* every pair of a minimum-count player with a team-mate, set against every
\* pair of the other team, is a used combination
MinPlayersExhausted ==
    \A p \in Roster :
        playerMatchCount[p] = LowestCount =>
            \A q \in TeamMates(p) : ~HasUnusedWith(p, q)

\* C24: when generateFixtures leaves Phase 3 with the counts more than 1 apart
\* and fewer than 100 repair fixtures committed (every attempt before the
\* last one committed one), the minimum-count players have no unused
\* combination left.
StuckOnlyWhenExhausted ==
    [][(/\ pc = "phase3"
        /\ pc' = "done"
        /\ DisjointTeams
        /\ HighestCount - LowestCount > 1
        /\ balancingAttempts < maxBalancingAttempts) => MinPlayersExhausted]_vars

\* C24 witness: generateFixtures has returned after some repairs and a last
\* attempt that found nothing, with the counts more than 1 apart
ReturnedStuck ==
    /\ pc = "done"
    /\ DisjointTeams
    /\ HighestCount - LowestCount > 1
    /\ balancingAttempts \in 2..maxBalancingAttempts
    /\ Len(fixtures) < totalMatches + maxBalancingAttempts
    /\ MinPlayersExhausted

\* C25: from the setup on, with disjoint teams, each player's counter is the
\* number of committed fixtures with that player in them, the used set is the
\* set of the keys of the committed fixtures, and no step lowers a counter.
CountersMatchFixtures ==
    /\ []((pc # "start" /\ DisjointTeams) =>
             /\ DOMAIN playerMatchCount = Roster
             /\ \A p \in Roster : playerMatchCount[p] = Appearances(p)
             /\ usedCombinations = KeysOf(fixtures))
    /\ [][(pc # "start" /\ DisjointTeams) =>
             \A p \in Roster : playerMatchCount'[p] >= playerMatchCount[p]]_vars

\* C25 witness: generateFixtures has returned fixtures of Phase 1 and of the
\* later phases, and some player is in more than one of them
CountedAcrossPhases ==
    /\ pc = "done"
    /\ DisjointTeams
    /\ totalMatches >= 1
    /\ balancingAttempts >= 2
    /\ Len(fixtures) > totalMatches + 1
    /\ \E p \in Roster : playerMatchCount[p] >= 2

\* a score request arrives with this step
ScoreReceived == requestCount' = requestCount + 1 /\ request'.to = "score"

\* the places of the cached fixtures with an id
CachedAt(id) ==
    {i \in 1..Len(currentTournament.fixtures) : currentTournament.fixtures[i].id = id}

\* cache and matches table are as before
StoreUnchanged == currentTournament' = currentTournament /\ matches' = matches

\* a waiting score request is over with this step
ScoreAnswered == \E r \in scoreRequests : scoreRequests' = scoreRequests \ {r}
Answered == CHOOSE r \in scoreRequests : scoreRequests' = scoreRequests \ {r}

\* the database carries out the update of a waiting request with this step
ScoreWritten ==
    \E r \in scoreRequests : ~r.updated /\ [r EXCEPT !.updated = TRUE] \in scoreRequests'
Written ==
    CHOOSE r \in scoreRequests : ~r.updated /\ [r EXCEPT !.updated = TRUE] \in scoreRequests'

RecordedResultStays ==
    [][/\ \A i \in 1..Len(currentTournament.fixtures) :
          \A j \in 1..Len(currentTournament'.fixtures) :
             (/\ currentTournament.fixtures[i].status = "completed"
              /\ currentTournament'.fixtures[j].id = currentTournament.fixtures[i].id) =>
                 /\ currentTournament'.fixtures[j].status = "completed"
                 /\ currentTournament'.fixtures[j].team1Score
                        = currentTournament.fixtures[i].team1Score
                 /\ currentTournament'.fixtures[j].team2Score
                        = currentTournament.fixtures[i].team2Score
                 /\ currentTournament'.fixtures[j].winner
                        = currentTournament.fixtures[i].winner
       /\ \A id \in DOMAIN matches :
             matches[id].status = "completed" =>
                 /\ matches'[id].status = "completed"
                 /\ matches'[id].team1_score = matches[id].team1_score
                 /\ matches'[id].team2_score = matches[id].team2_score
                 /\ matches'[id].winner_team = matches[id].winner_team]_vars

\* a swap request arrives with this step
SwapReceived == requestCount' = requestCount + 1 /\ request'.to = "swap-players"

\* the players of the cached tournament, and whether its teams share none
CachedPlayers(t) == Range(t.teams.team1) \cup Range(t.teams.team2)
CachedDisjoint(t) ==
    Cardinality(CachedPlayers(t)) = Len(t.teams.team1) + Len(t.teams.team2)

\* the player at a place of the cached teams
PlayerAt(t, team, i) == IF team = "team1" THEN t.teams.team1[i] ELSE t.teams.team2[i]
Places(t) ==
    {<<"team1", i>> : i \in 1..Len(t.teams.team1)}
        \cup {<<"team2", i>> : i \in 1..Len(t.teams.team2)}

\* C28: a swap request with no tournament, a missing id, the same id twice or
\* an id of no player of the tournament is answered 400 and leaves the cached
\* teams and fixtures as they are; a request with two different players of a
\* tournament with disjoint teams puts each of the two at the other's place
\* and leaves every other place alone, so that the players, the sizes of the
\* teams and their disjointness stay, and it is answered 200 without another
\* change of the teams.
SwapExchangesTwo ==
    /\ [][SwapReceived =>
            IF \/ currentTournament.status = "null"
               \/ request'.player1Id = 0
               \/ request'.player2Id = 0
               \/ request'.player1Id = request'.player2Id
               \/ request'.player1Id \notin CachedPlayers(currentTournament)
               \/ request'.player2Id \notin CachedPlayers(currentTournament)
            THEN /\ response' = Answer("swap-players", 400)
                 /\ currentTournament' = currentTournament
                 /\ matches' = matches
            ELSE CachedDisjoint(currentTournament) =>
                 /\ CachedPlayers(currentTournament') = CachedPlayers(currentTournament)
                 /\ Len(currentTournament'.teams.team1) = Len(currentTournament.teams.team1)
                 /\ Len(currentTournament'.teams.team2) = Len(currentTournament.teams.team2)
                 /\ CachedDisjoint(currentTournament')
                 /\ \A pl \in Places(currentTournament) :
                       PlayerAt(currentTournament', pl[1], pl[2]) =
                          IF PlayerAt(currentTournament, pl[1], pl[2]) = request'.player1Id
                          THEN request'.player2Id
                          ELSE IF PlayerAt(currentTournament, pl[1], pl[2]) = request'.player2Id
                          THEN request'.player1Id
                          ELSE PlayerAt(currentTournament, pl[1], pl[2])]_vars
    /\ [][(handler = "swap-players" /\ handler' = "none") =>
            /\ response' = Answer("swap-players", 200)
            /\ currentTournament'.teams = currentTournament.teams]_vars
    /\ [](handler = "swap-players" =>
            /\ team1 = currentTournament.teams.team1
            /\ team2 = currentTournament.teams.team2)

\* C28 witness: two players of different teams have been swapped and the
\* request has been answered, with fixtures for the new teams
SwappedAcrossTeams ==
    /\ pc = "idle"
    /\ request.to = "swap-players"
    /\ response = Answer("swap-players", 200)
    /\ currentTournament.fixtures # <<>>
    /\ TeamOf(currentTournament.teams, request.player1Id)
           # TeamOf(currentTournament.teams, request.player2Id)
    /\ PlaceOf(currentTournament.teams, request.player1Id) # 0
    /\ PlaceOf(currentTournament.teams, request.player2Id) # 0

\* the row of a fixture says what the fixture says
RowAgrees(f, row, tournamentId) ==
    /\ row.tournament_id = tournamentId
    /\ <<row.team1_player1_id, row.team1_player2_id>> = f.team1
    /\ <<row.team2_player1_id, row.team2_player2_id>> = f.team2
    /\ row.status = f.status
    /\ f.status = "completed" =>
          /\ row.team1_score = f.team1Score
          /\ row.team2_score = f.team2Score
          /\ row.winner_team = (IF f.winner = "team1" THEN 1 ELSE 2)

\* C29, as claimed: when every request received has been answered, each
\* fixture of the cached tournament has a row with its id in the matches
\* table, for that tournament, with the same four players, status and result.
CacheAgreesWithMatches ==
    (pc = "idle" /\ scoreRequests = {} /\ currentTournament.status = "active") =>
        \A i \in 1..Len(currentTournament.fixtures) :
            /\ currentTournament.fixtures[i].id \in DOMAIN matches
            /\ RowAgrees(currentTournament.fixtures[i],
                         matches[currentTournament.fixtures[i].id],
                         currentTournament.id)

\* a regenerate request arrives with this step
RegenerateReceived == requestCount' = requestCount + 1 /\ request'.to = "regenerate"

\* the cached fixtures are matches of a pair of the cached team1 against a
\* pair of the cached team2
CachedSchedule(t) ==
    \A i \in 1..Len(t.fixtures) :
        /\ IsPairOf(t.fixtures[i].team1, t.teams.team1)
        /\ IsPairOf(t.fixtures[i].team2, t.teams.team2)

\* C30, as claimed: a regenerate request without a tournament is answered 400
\* and changes nothing; with a tournament it is answered 200, the cached
\* tournament then having the requested matchesPerPlayer, the players it had,
\* and fixtures that are a schedule for its teams.
RegenerateReplaces ==
    /\ [][(RegenerateReceived /\ currentTournament.status = "null") =>
             /\ response' = Answer("regenerate", 400)
             /\ StoreUnchanged]_vars
    /\ [][(RegenerateReceived /\ currentTournament.status = "active") =>
             /\ response' = Answer("regenerate", 200)
             /\ currentTournament'.status = "active"
             /\ currentTournament'.matchesPerPlayer = request'.matchesPerPlayer
             /\ CachedPlayers(currentTournament') = CachedPlayers(currentTournament)
             /\ CachedSchedule(currentTournament')]_vars

============================================================================
